---- MODULE Spec2Model ----
(***************************************************************************)
(* CenterOfMass.py: the Vector and Particle classes and the interactive    *)
(* input loop of the main program.                                         *)
(*                                                                         *)
(* Numbers.  A Decimal is a record [k, v]: k = "fin" with v the value in   *)
(* units of 1/Unit, or k = "nan" / "inf" (v the sign) for the special      *)
(* values Decimal accepts.  Decimal +, -, * are exact: a product of two    *)
(* values in units of 1/Unit is carried in units of 1/Unit^2.  Decimal     *)
(* division and the float operations (math.sqrt, math.cos, math.sin, the   *)
(* float product) round, half-even, to the resolution of the model.        *)
(***************************************************************************)
EXTENDS Integers, Sequences, FiniteSets, TLC

VARIABLES
    va, vb,          \* Vector harness: the two operand Vectors
    vop,             \* Vector harness: the last operation applied
    vres,            \* Vector harness: the Vector an operation returned
    dres,            \* Vector harness: the Decimal an operation returned
    verr,            \* Vector harness: the exception raised, or "none"
    vin,             \* Vector harness: the raw arguments of the last call
    plist,           \* Particle harness: the particle list
    pop,             \* Particle harness: the last operation applied
    psum,            \* Particle harness: the Decimal combineMasses returned
    pout,            \* Particle harness: what centerOfMass returned or raised
    pc,              \* main program: position in the script
    particles,       \* main program: particles (line 167)
    continueInput,   \* main program: continueInput (line 168)
    particleError,   \* main program: particleError (line 169)
    partVec,         \* main program: partVec of the current iteration
    partType,        \* main program: partType of the current iteration
    comOut           \* main program: outcome of Particle.centerOfMass(particles)

vecVars == <<va, vb, vop, vres, dres, verr, vin>>
partVars == <<plist, pop, psum, pout>>
mainVars == <<pc, particles, continueInput, particleError, partVec, partType, comOut>>
vars == <<va, vb, vop, vres, dres, verr, vin, plist, pop, psum, pout,
          pc, particles, continueInput, particleError, partVec, partType, comOut>>

(***************************************************************************)
(* Bounds of the model.                                                    *)
(***************************************************************************)
FracDigits == 2      \* fractional decimal digits the model resolves
MaxCoord == 2        \* coordinates are whole numbers in -MaxCoord..MaxCoord
MaxHeight == 5       \* cylindrical heights are whole numbers in -1..MaxHeight
MaxMass == 2         \* masses are whole numbers in -1..MaxMass
MaxLen == 2          \* longest particle list of the Particle harness
MaxParticles == 2    \* most particles the main program is given

Unit == 10 ^ FracDigits

Abs(n) == IF n < 0 THEN -n ELSE n

\* n / d rounded to the nearest integer, ties to even (d > 0).
RoundDiv(n, d) ==
    LET q == n \div d
        r == n % d
    IN  IF 2 * r < d THEN q
        ELSE IF 2 * r > d THEN q + 1
        ELSE IF q % 2 = 0 THEN q ELSE q + 1

(***************************************************************************)
(* Decimal values.                                                         *)
(***************************************************************************)
Fin(n) == [k |-> "fin", v |-> n]
NaN == [k |-> "nan", v |-> 0]
Inf(s) == [k |-> "inf", v |-> s]
Raised(e) == [k |-> e, v |-> 0]

IsFinite(d) == d.k = "fin"
IsNumber(d) == d.k \in {"fin", "nan", "inf"}

\* Decimal(0), Decimal(n) for a whole number n.
Whole(n) == Fin(n * Unit)

VECTOR_ORIGIN_X == Whole(0)
VECTOR_ORIGIN_Y == Whole(0)
VECTOR_ORIGIN_Z == Whole(0)

\* Decimal.__add__ / __sub__ on finite operands of the same scale: exact.
DAdd(a, b) == Fin(a.v + b.v)
DSub(a, b) == Fin(a.v - b.v)

\* Decimal.__mul__ / __pow__(2) on finite operands: exact, the result is in
\* units of 1/Unit^2.
DMul(a, b) == Fin(a.v * b.v)
DSquare(a) == Fin(a.v * a.v)

\* Decimal.__truediv__ of a (units of 1/Unit^2) by b (units of 1/Unit), the
\* quotient in units of 1/Unit, rounded half-even.  0/0 signals
\* InvalidOperation (DivisionUndefined), x/0 signals DivisionByZero; both
\* traps are enabled in the default context, so both raise.
DDiv(a, b) ==
    IF b.v = 0
    THEN IF a.v = 0 THEN Raised("InvalidOperation") ELSE Raised("DivisionByZero")
    ELSE IF b.v > 0 THEN Fin(RoundDiv(a.v, b.v))
    ELSE Fin(RoundDiv(-a.v, -b.v))

\* math.sqrt of a non-negative value in units of 1/Unit^2, the correctly
\* rounded root in units of 1/Unit.
RECURSIVE Root(_, _, _)
Root(n, lo, hi) ==
    \* the s in lo..hi with s*s <= n < (s+1)*(s+1), by bisection
    IF lo = hi THEN lo
    ELSE LET mid == (lo + hi + 1) \div 2
         IN  IF mid * mid <= n THEN Root(n, mid, hi) ELSE Root(n, lo, mid - 1)

FloatSqrt(a) ==
    LET r == Root(a.v, 0, 40000)
    IN  IF a.v - r * r <= r THEN Fin(r) ELSE Fin(r + 1)

\* math.cos / math.sin of a whole number of radians, in ten-thousandths.
CosTable(j) == CASE j = 0 -> 10000 [] j = 1 -> 5403
                 [] j = 2 -> -4161 [] j = 3 -> -9900
SinTable(j) == CASE j = 0 -> 0 [] j = 1 -> 8415
                 [] j = 2 -> 9093 [] j = 3 -> 1411
Angles == 0..3
TableUnit == 10 ^ 4
FloatCos(j) == Fin(RoundDiv(CosTable(j), TableUnit \div Unit))
FloatSin(j) == Fin(RoundDiv(SinTable(j), TableUnit \div Unit))

\* float * float, rounded to the resolution.
FloatMul(a, b) == Fin(RoundDiv(a.v * b.v, Unit))

(***************************************************************************)
(* Arguments and outcomes.  An argument of Vector() or Particle() is a     *)
(* Python value: an int, a float, a str or a Decimal.  A call either       *)
(* returns a value or raises.                                              *)
(***************************************************************************)
PyInt(n) == [ty |-> "int", d |-> Whole(n), s |-> ""]
PyFloat(d) == [ty |-> "float", d |-> d, s |-> ""]
PyStr(s) == [ty |-> "str", d |-> Whole(0), s |-> s]
PyDec(d) == [ty |-> "Decimal", d |-> d, s |-> ""]

\* The numerals the model types in: Numerals[i] is the text of i - 4.
Numerals == <<"-3", "-2", "-1", "0", "1", "2", "3">>
Numeral(n) == Numerals[n + 4]

\* Decimal(str): a numeral parses to its value, "NaN" and "Infinity" parse
\* to the special values, anything else raises InvalidOperation.
ParseDecimal(s) ==
    IF \E i \in DOMAIN Numerals : Numerals[i] = s
    THEN Whole((CHOOSE i \in DOMAIN Numerals : Numerals[i] = s) - 4)
    ELSE CASE s = "NaN" -> NaN
           [] s = "Infinity" -> Inf(1)
           [] s = "-Infinity" -> Inf(-1)
           [] OTHER -> Raised("InvalidOperation")

\* Decimal.from_float(f): the exact value of a finite float; nan and inf
\* become Decimal NaN and Infinity, nothing raises.
FromFloat(f) == f

\* Decimal(value) for an int, a str or a Decimal.
ToDecimal(a) ==
    CASE a.ty = "int" -> a.d
      [] a.ty = "Decimal" -> a.d
      [] a.ty = "str" -> ParseDecimal(a.s)

NoVec == [x |-> Whole(0), y |-> Whole(0), z |-> Whole(0)]
Ret(vec) == [ok |-> TRUE, err |-> "none", vec |-> vec]
Raise(e) == [ok |-> FALSE, err |-> e, vec |-> NoVec]

(***************************************************************************)
(* class Vector                                                            *)
(***************************************************************************)
\* One component of Vector.__init__: from_float for a float, Decimal(v)
\* for anything else.
Component(a) == IF a.ty = "float" THEN FromFloat(a.d) ELSE ToDecimal(a)

VectorInit(x, y, z) ==
    LET cx == Component(x)
        cy == Component(y)
        cz == Component(z)
    IN  IF ~IsNumber(cx) THEN Raise(cx.k)
        ELSE IF ~IsNumber(cy) THEN Raise(cy.k)
        ELSE IF ~IsNumber(cz) THEN Raise(cz.k)
        ELSE Ret([x |-> cx, y |-> cy, z |-> cz])

\* __add__ with the y sum taken from the x components.
VectorAddSlip(self, vector2) ==
    LET x == DAdd(self.x, vector2.x)
        y == DAdd(self.x, vector2.y)
        z == DAdd(self.z, vector2.z)
    IN  VectorInit(PyDec(x), PyDec(y), PyDec(z))

\* Vector.__add__(self, vector2)
VectorAdd(self, vector2) ==
    LET x == DAdd(self.x, vector2.x)
        y == DAdd(self.y, vector2.y)
        z == DAdd(self.z, vector2.z)
    IN  VectorInit(PyDec(x), PyDec(y), PyDec(z))

\* Vector.fromPolar(r, q, j): r a float, q and j whole radians.
fromPolar(r, q, j) ==
    LET x == FloatMul(FloatMul(r, FloatSin(q)), FloatCos(j))
        y == FloatMul(FloatMul(r, FloatSin(q)), FloatSin(j))
        z == FloatMul(r, FloatCos(q))
    IN  VectorInit(PyFloat(x), PyFloat(y), PyFloat(z))

\* fromCylindrical building Vector(x, y): z is left to its default, 0.
fromCylindricalNoZ(r, j, z) ==
    LET x == FloatMul(r, FloatCos(j))
        y == FloatMul(r, FloatSin(j))
    IN  VectorInit(PyFloat(x), PyFloat(y), PyInt(0))

\* Vector.fromCylindrical(r, j, z): r and z floats, j whole radians.
fromCylindrical(r, j, z) ==
    LET x == FloatMul(r, FloatCos(j))
        y == FloatMul(r, FloatSin(j))
    IN  VectorInit(PyFloat(x), PyFloat(y), PyFloat(z))

\* distance with the x difference taken against vector1.y.
distanceSlip(vector1, vector2) ==
    LET xdist == DSquare(DSub(vector2.x, vector1.y))
        ydist == DSquare(DSub(vector2.y, vector1.y))
        zdist == DSquare(DSub(vector2.z, vector1.z))
    IN  FromFloat(FloatSqrt(DAdd(DAdd(xdist, ydist), zdist)))

\* Vector.distance(vector1, vector2)
distance(vector1, vector2) ==
    LET xdist == DSquare(DSub(vector2.x, vector1.x))
        ydist == DSquare(DSub(vector2.y, vector1.y))
        zdist == DSquare(DSub(vector2.z, vector1.z))
    IN  FromFloat(FloatSqrt(DAdd(DAdd(xdist, ydist), zdist)))

(***************************************************************************)
(* class Particle                                                          *)
(***************************************************************************)
\* Particle.__init__(locationVector, mass)
Particle(locationVector, mass) ==
    [location |-> locationVector, mass |-> ToDecimal(mass)]

RECURSIVE MassLoop(_, _, _)
MassLoop(particleList, i, x) ==
    IF i > Len(particleList) THEN x
    ELSE MassLoop(particleList, i + 1, DAdd(x, particleList[i].mass))

\* combineMasses keeping only the mass of the particle at hand (= for +=).
RECURSIVE LastMassLoop(_, _, _)
LastMassLoop(particleList, i, x) ==
    IF i > Len(particleList) THEN x
    ELSE LastMassLoop(particleList, i + 1, particleList[i].mass)
combineMassesAssign(particleList) == LastMassLoop(particleList, 1, Whole(0))

\* Particle.combineMasses(particleList)
combineMasses(particleList) == MassLoop(particleList, 1, Whole(0))

Origin == [x |-> VECTOR_ORIGIN_X, y |-> VECTOR_ORIGIN_Y, z |-> VECTOR_ORIGIN_Z]

\* One "Process" loop of centerOfMass, for the axis k: the sum over the
\* particles of sqrt((origin_k - location_k) ** 2) * mass.
RECURSIVE AxisLoop(_, _, _, _)
AxisLoop(particleList, k, i, op1) ==
    IF i > Len(particleList) THEN op1
    ELSE LET particle == particleList[i]
             dist == FromFloat(FloatSqrt(DSquare(DSub(Origin[k], particle.location[k]))))
             op1d == DMul(dist, particle.mass)
         IN  AxisLoop(particleList, k, i + 1, DAdd(op1, op1d))

\* The loop with the signed coordinate in place of the distance.
RECURSIVE SignedAxisLoop(_, _, _, _)
SignedAxisLoop(particleList, k, i, op1) ==
    IF i > Len(particleList) THEN op1
    ELSE LET particle == particleList[i]
             op1d == DMul(particle.location[k], particle.mass)
         IN  SignedAxisLoop(particleList, k, i + 1, DAdd(op1, op1d))

Quotients(op1x, op1y, op1z, massesCombined) ==
    LET comX == DDiv(op1x, massesCombined)
        comY == DDiv(op1y, massesCombined)
        comZ == DDiv(op1z, massesCombined)
    IN  IF ~IsNumber(comX) THEN Raise(comX.k)
        ELSE IF ~IsNumber(comY) THEN Raise(comY.k)
        ELSE IF ~IsNumber(comZ) THEN Raise(comZ.k)
        ELSE VectorInit(PyDec(comX), PyDec(comY), PyDec(comZ))

\* centerOfMass weighting the signed coordinates (the textbook formula).
centerOfMassSigned(particleList) ==
    Quotients(SignedAxisLoop(particleList, "x", 1, Fin(0)),
              SignedAxisLoop(particleList, "y", 1, Fin(0)),
              SignedAxisLoop(particleList, "z", 1, Fin(0)),
              combineMasses(particleList))

\* centerOfMass returning the origin when there is no mass to divide by.
centerOfMassGuarded(particleList) ==
    IF combineMasses(particleList) = Whole(0) THEN Ret(Origin)
    ELSE Quotients(AxisLoop(particleList, "x", 1, Fin(0)),
                   AxisLoop(particleList, "y", 1, Fin(0)),
                   AxisLoop(particleList, "z", 1, Fin(0)),
                   combineMasses(particleList))

\* Particle.centerOfMass(particleList)
centerOfMass(particleList) ==
    LET massesCombined == combineMasses(particleList)
        op1x == AxisLoop(particleList, "x", 1, Fin(0))
        op1y == AxisLoop(particleList, "y", 1, Fin(0))
        op1z == AxisLoop(particleList, "z", 1, Fin(0))
    IN  Quotients(op1x, op1y, op1z, massesCombined)

(***************************************************************************)
(* Vector harness: the operand Vectors are drawn at the start, and one     *)
(* operation is applied to them; the state records what it returned.       *)
(***************************************************************************)
Coords == -MaxCoord..MaxCoord
Vectors == {[x |-> Whole(a), y |-> Whole(b), z |-> Whole(c)] :
                a \in Coords, b \in Coords, c \in Coords}
NoArgs == <<PyInt(0), PyInt(0), PyInt(0)>>

VecIdle ==
    /\ vop = "none" /\ vres = NoVec /\ dres = Whole(0)
    /\ verr = "none" /\ vin = NoArgs
PartIdle == plist = <<>> /\ pop = "none" /\ psum = Whole(0) /\ pout = Ret(NoVec)
MainIdle ==
    /\ pc = "idle" /\ particles = <<>> /\ continueInput = TRUE
    /\ particleError = FALSE /\ partVec = NoVec /\ partType = "" /\ comOut = Ret(NoVec)

InitVector == va \in Vectors /\ vb \in Vectors /\ VecIdle /\ PartIdle /\ MainIdle

\* a + b
DoAdd ==
    LET r == VectorAdd(va, vb)
    IN  /\ vop = "none"
        /\ vop' = "add" /\ vres' = r.vec /\ verr' = r.err
        /\ UNCHANGED <<va, vb, dres, vin, partVars, mainVars>>

\* Vector.distance(a, b)
DoDistance ==
    /\ vop = "none"
    /\ vop' = "distance" /\ dres' = distance(va, vb)
    /\ UNCHANGED <<va, vb, vres, verr, vin, partVars, mainVars>>

NextVector == DoAdd \/ DoDistance
SpecVector == InitVector /\ [][NextVector]_vars

\* The arguments Vector() is called with: ints, floats (finite, nan, inf)
\* and texts (numerals, the special values, text that is no number).
Texts == {"1", "-2", "abc", "", "NaN", "Infinity", "-Infinity"}
Args == {PyInt(n) : n \in -1..1}
          \cup {PyFloat(Whole(n)) : n \in 0..1}
          \cup {PyFloat(NaN), PyFloat(Inf(1)), PyFloat(Inf(-1))}
          \cup {PyStr(s) : s \in Texts}
\* The floats the conversions are called with: halves and whole numbers.
Radii == {Fin(n * (Unit \div 2)) : n \in 0..(2 * MaxCoord)}
Heights == {Whole(n) : n \in -1..MaxHeight}

InitConstruct == va = NoVec /\ vb = NoVec /\ VecIdle /\ PartIdle /\ MainIdle

\* Vector(x, y, z)
DoVector ==
    \E x \in Args, y \in Args, z \in Args :
        LET r == VectorInit(x, y, z)
        IN  /\ vop = "none"
            /\ vop' = "Vector" /\ vin' = <<x, y, z>>
            /\ vres' = r.vec /\ verr' = r.err
            /\ UNCHANGED <<va, vb, dres, partVars, mainVars>>

\* Vector.fromCylindrical(r, j, z)
DoFromCylindrical ==
    \E r \in Radii, j \in Angles, z \in Heights :
        LET o == fromCylindrical(r, j, z)
        IN  /\ vop = "none"
            /\ vop' = "fromCylindrical" /\ vin' = <<PyFloat(r), PyInt(j), PyFloat(z)>>
            /\ vres' = o.vec /\ verr' = o.err
            /\ UNCHANGED <<va, vb, dres, partVars, mainVars>>

\* Vector.fromPolar(r, q, j)
DoFromPolar ==
    \E r \in Radii, q \in Angles, j \in Angles :
        LET o == fromPolar(r, q, j)
        IN  /\ vop = "none"
            /\ vop' = "fromPolar" /\ vin' = <<PyFloat(r), PyInt(q), PyInt(j)>>
            /\ vres' = o.vec /\ verr' = o.err
            /\ UNCHANGED <<va, vb, dres, partVars, mainVars>>

NextConstruct == DoVector \/ DoFromCylindrical \/ DoFromPolar
SpecConstruct == InitConstruct /\ [][NextConstruct]_vars

(***************************************************************************)
(* Properties of class Vector.                                             *)
(***************************************************************************)
AllFinite(vec) == IsFinite(vec.x) /\ IsFinite(vec.y) /\ IsFinite(vec.z)

\* C4: fromCylindrical(r, phi, z) returns a Vector whose z is the z argument
\* unchanged, whose x is r*cos(phi) and whose y is r*sin(phi), to within the
\* rounding of the two float operations; fromCylindrical(1, 0, 5) is
\* Vector(1, 0, 5).
C4_CylindricalKeepsZ ==
    vop = "fromCylindrical" =>
        LET r == vin[1].d.v
            j == vin[2].d.v \div Unit
            z == vin[3].d
            tol == ((TableUnit \div Unit) * (r + Unit)) \div 2
        IN  /\ verr = "none"
            /\ vres.z = z
            /\ Abs(vres.x.v * TableUnit - r * CosTable(j)) <= tol
            /\ Abs(vres.y.v * TableUnit - r * SinTable(j)) <= tol
            /\ (r = Unit /\ j = 0 /\ z = Whole(5)) =>
                   vres = [x |-> Whole(1), y |-> Whole(0), z |-> Whole(5)]

\* fromCylindrical was called with a non-zero height and a non-zero angle.
C4_Witness ==
    /\ vop = "fromCylindrical" /\ verr = "none"
    /\ vin[3].d = Whole(5) /\ vin[2].d = Whole(1) /\ vin[1].d.v = 3 * (Unit \div 2)
    /\ vres.z = Whole(5)

\* C5: every Vector that construction returns has three finite components:
\* an argument that is no finite number makes Vector() raise.
C5_ComponentsFinite ==
    (vop = "Vector" /\ verr = "none") => AllFinite(vres)

\* C7: a + b is a new Vector of the element-wise sums, it equals b + a, and
\* a and b are what they were before the call.
C7_Sum ==
    vop = "add" =>
        /\ verr = "none" /\ AllFinite(vres)
        /\ vres.x.v = va.x.v + vb.x.v
        /\ vres.y.v = va.y.v + vb.y.v
        /\ vres.z.v = va.z.v + vb.z.v
        /\ vres = VectorAdd(vb, va).vec
C8_DistanceMetric ==
    vop = "distance" =>
        /\ IsFinite(dres) /\ dres.v >= 0
        /\ dres = distance(vb, va)
        /\ distance(va, va) = Whole(0)
        /\ (va = vb => dres = Whole(0))

\* The distance of two different points was computed, and it is no whole
\* number.
C8_Witness ==
    /\ vop = "distance" /\ va # vb /\ va.x # va.y
    /\ dres.v > 0 /\ dres.v % Unit # 0

(***************************************************************************)
(* Particle harness: a list is built with Particle(), then one of the two  *)
(* aggregate operations is applied to it.                                  *)
(***************************************************************************)
Locations == {[x |-> Whole(a), y |-> Whole(b), z |-> Whole(c)] :
                  a \in {-2, 1, 2}, b \in {-1, 0}, c \in {0, 1}}
Masses == -1..MaxMass

InitParticle == va = NoVec /\ vb = NoVec /\ VecIdle /\ PartIdle /\ MainIdle

\* plist.append(Particle(location, mass))
NewParticle ==
    \E location \in Locations, mass \in Masses :
        /\ pop = "none" /\ Len(plist) < MaxLen
        /\ plist' = Append(plist, Particle(location, PyInt(mass)))
        /\ UNCHANGED <<pop, psum, pout, vecVars, mainVars>>

\* Particle.combineMasses(plist)
DoCombineMasses ==
    /\ pop = "none"
    /\ pop' = "combineMasses" /\ psum' = combineMasses(plist)
    /\ UNCHANGED <<plist, pout, vecVars, mainVars>>

\* Particle.centerOfMass(plist)
DoCenterOfMass ==
    /\ pop = "none"
    /\ pop' = "centerOfMass" /\ pout' = centerOfMass(plist)
    /\ UNCHANGED <<plist, psum, vecVars, mainVars>>

NextParticle == NewParticle \/ DoCombineMasses \/ DoCenterOfMass
SpecParticle == InitParticle /\ [][NextParticle]_vars

(***************************************************************************)
(* Properties of class Particle.                                           *)
(***************************************************************************)
\* Sums over the positions of a list, taken in no particular order.
RECURSIVE TotalMass(_, _)
TotalMass(list, I) ==
    IF I = {} THEN 0
    ELSE LET i == CHOOSE j \in I : TRUE
         IN  list[i].mass.v + TotalMass(list, I \ {i})

RECURSIVE Moment(_, _, _)
Moment(list, k, I) ==
    IF I = {} THEN 0
    ELSE LET i == CHOOSE j \in I : TRUE
         IN  list[i].mass.v * Abs(list[i].location[k].v) + Moment(list, k, I \ {i})

Reordered(list) ==
    {[i \in DOMAIN list |-> list[f[i]]] : f \in Permutations(DOMAIN list)}

\* r is the quotient n / d (d # 0), exact when d divides n and otherwise
\* the nearest value of the resolution.
IsQuotient(r, n, d) == IsFinite(r) /\ 2 * Abs(r.v * d - n) <= Abs(d)

TwoOpposite ==
    <<[location |-> [x |-> Whole(2), y |-> Whole(0), z |-> Whole(0)], mass |-> Whole(1)],
      [location |-> [x |-> Whole(-2), y |-> Whole(0), z |-> Whole(0)], mass |-> Whole(1)]>>

C6_MassNonNegative ==
    \A i \in DOMAIN plist : IsFinite(plist[i].mass) /\ plist[i].mass.v >= 0

(***************************************************************************)
(* The main program: the input loop (lines 167-238), the display of the    *)
(* particles (245-264) and the call of Particle.centerOfMass (266).        *)
(* pc is the statement about to run: "while" the loop test, "type",        *)
(* "coords", "mass" and "cont" the input() calls of one iteration,         *)
(* "display", "com"; then "printed" (the result was printed), "comRaised"  *)
(* (centerOfMass raised), "crashed" (an input raised an exception nothing  *)
(* catches) or "exit" (sys.exit after CTRL+C with no particle).            *)
(***************************************************************************)
\* def partError(): particleError = True.  The assignment binds a name
\* local to the function: the value of the module's particleError after
\* the call is the value it had before.
partError(flag) == flag

\* str.lower() on the texts the model types in.
Lower(s) == CASE s = "Cartesian" -> "cartesian" [] s = "POLAR" -> "polar" [] OTHER -> s

\* float(str): a numeral parses, anything else raises ValueError.
ParseFloat(s) ==
    IF \E i \in DOMAIN Numerals : Numerals[i] = s
    THEN Whole((CHOOSE i \in DOMAIN Numerals : Numerals[i] = s) - 4)
    ELSE Raised("ValueError")

TypeTexts == {"", "Cartesian", "POLAR", "cylindrical", "spherical"}
CoordTexts == {"-1", "2", "abc"}
AngleTexts == {"0", "1"}
MassTexts == {Numeral(n) : n \in -1..MaxMass} \cup {"abc", "NaN"}
Answers == {"y", "", "n"}

InitMain ==
    /\ pc = "while" /\ particles = <<>> /\ continueInput = TRUE
    /\ particleError = FALSE /\ partVec = NoVec /\ partType = ""
    /\ comOut = Ret(NoVec)
    /\ va = NoVec /\ vb = NoVec /\ VecIdle /\ PartIdle

\* Lines 173-184: the loop test and, with particleError set, the question
\* whether to continue.
LoopTest ==
    /\ pc = "while"
    /\ IF ~continueInput
       THEN pc' = "display" /\ UNCHANGED <<continueInput, particleError>>
       ELSE IF particleError
            THEN \E tempCont \in Answers :
                     /\ continueInput' = (tempCont = "y" \/ tempCont = "")
                     /\ particleError' = FALSE
                     /\ pc' = "type"
            ELSE pc' = "type" /\ UNCHANGED <<continueInput, particleError>>
    /\ UNCHANGED <<particles, partVec, partType, comOut, vecVars, partVars>>

\* Line 186 and the else branch, lines 206-210.
ReadType ==
    \E text \in TypeTexts :
        /\ pc = "type" /\ Len(particles) < MaxParticles
        /\ partType' = text
        /\ IF Lower(text) \in {"", "cartesian", "polar", "cylindrical"}
           THEN pc' = "coords" /\ UNCHANGED particleError
           ELSE pc' = "while" /\ particleError' = partError(particleError)
        /\ UNCHANGED <<particles, continueInput, partVec, comOut, vecVars, partVars>>

\* What lines 188-204 leave in partVec, or the exception they raise.
ReadVector(type, a, b, c) ==
    IF type \in {"", "cartesian"}
    THEN VectorInit(PyStr(a), PyStr(b), PyStr(c))
    ELSE LET fa == ParseFloat(a)
             fb == ParseFloat(b)
             fc == ParseFloat(c)
         IN  IF ~IsNumber(fa) THEN Raise(fa.k)
             ELSE IF ~IsNumber(fb) THEN Raise(fb.k)
             ELSE IF ~IsNumber(fc) THEN Raise(fc.k)
             ELSE IF type = "polar"
                  THEN fromPolar(fa, fb.v \div Unit, fc.v \div Unit)
                  ELSE fromCylindrical(fa, fb.v \div Unit, fc)

\* Lines 188-204: the three values of the chosen coordinate type.
ReadCoords ==
    \E a \in CoordTexts, b \in CoordTexts \cup AngleTexts, c \in CoordTexts \cup AngleTexts :
        LET type == Lower(partType)
            r == ReadVector(type, a, b, c)
        IN  /\ pc = "coords"
            /\ type = "polar" => (b \in AngleTexts /\ c \in AngleTexts)
            /\ type = "cylindrical" => (b \in AngleTexts /\ c \in CoordTexts)
            /\ type \in {"", "cartesian"} => (b \in {"0", "abc"} /\ c = "1")
            /\ IF r.ok THEN pc' = "mass" /\ partVec' = r.vec
               ELSE pc' = "crashed" /\ UNCHANGED partVec
            /\ UNCHANGED <<particles, continueInput, particleError, partType, comOut,
                           vecVars, partVars>>

\* Lines 212-220: the mass, the check for a negative mass, the append.
ReadMass ==
    \E mass \in MassTexts :
        LET m == ParseDecimal(mass)
        IN  /\ pc = "mass"
            /\ IF ~IsNumber(m) \/ m.k = "nan"
               THEN \* Decimal(mass) raises, or the comparison of NaN does
                    pc' = "crashed" /\ UNCHANGED <<particles, particleError>>
               ELSE IF m.v < 0
               THEN /\ pc' = "while" /\ particleError' = partError(particleError)
                    /\ UNCHANGED particles
               ELSE /\ particles' = Append(particles, Particle(partVec, PyStr(mass)))
                    /\ pc' = "cont" /\ UNCHANGED particleError
            /\ UNCHANGED <<continueInput, partVec, partType, comOut, vecVars, partVars>>

\* Lines 222-230.
ReadContinue ==
    \E tempCont \in Answers :
        /\ pc = "cont"
        /\ continueInput' = (tempCont = "y" \/ tempCont = "")
        /\ pc' = "while"
        /\ UNCHANGED <<particles, particleError, partVec, partType, comOut,
                       vecVars, partVars>>

\* Lines 232-238: CTRL+C at one of the input() calls of the loop.
KeyboardInterrupt ==
    /\ pc \in {"type", "coords", "mass", "cont"} \/ (pc = "while" /\ continueInput /\ particleError)
    /\ pc' = IF Len(particles) = 0 THEN "exit" ELSE "display"
    /\ UNCHANGED <<particles, continueInput, particleError, partVec, partType, comOut,
                   vecVars, partVars>>

\* Lines 245-264: print each particle and its distance from the origin.
Display ==
    /\ pc = "display"
    /\ pc' = "com"
    /\ UNCHANGED <<particles, continueInput, particleError, partVec, partType, comOut,
                   vecVars, partVars>>

\* Lines 266-270: comVec = Particle.centerOfMass(particles), printed.
CallCenterOfMass ==
    /\ pc = "com"
    /\ comOut' = centerOfMass(particles)
    /\ pc' = IF comOut'.ok THEN "printed" ELSE "comRaised"
    /\ UNCHANGED <<particles, continueInput, particleError, partVec, partType,
                   vecVars, partVars>>

Next ==
    \/ LoopTest \/ ReadType \/ ReadCoords \/ ReadMass \/ ReadContinue
    \/ KeyboardInterrupt \/ Display \/ CallCenterOfMass
Spec == InitMain /\ [][Next]_vars

(***************************************************************************)
(* Properties of the main program.                                         *)
(***************************************************************************)
\* C9: after an invalid coordinate type or a negative mass, partError() has
\* set the flag: the next loop iteration starts with particleError true (and
\* so asks "Continue adding particles?" before the coordinate type).
C9_ErrorSetsFlag ==
    [][((pc = "type" \/ pc = "mass") /\ pc' = "while") => particleError']_vars

\* C10: whenever the program reaches Particle.centerOfMass(particles), the
\* list is non-empty, holds no negative mass and has a total mass above
\* zero, so the call never raises.
C10_CallIsDefined ==
    /\ pc = "com" =>
           /\ particles # <<>>
           /\ \A i \in DOMAIN particles : particles[i].mass.v >= 0
           /\ TotalMass(particles, DOMAIN particles) > 0
    /\ pc # "comRaised"

====
